---------------------------- MODULE Spec2Model ----------------------------
(***************************************************************************)
(* IF482 time telegram generator of the ESP32 Paxcounter (src/if482.cpp).  *)
(*                                                                         *)
(* Two specifications share this module:                                   *)
(*   SpecEnc  the telegram encoder IF482_Out, called with broken-down      *)
(*            local times while the time status may change between its     *)
(*            separate timeStatus() reads;                                 *)
(*   Spec     if482_init, the task if482_loop and the interrupt service    *)
(*            routine IF482IRQ on a discrete tick time base.               *)
(***************************************************************************)
EXTENDS Integers, Sequences, FiniteSets, TLC

(***************************************************************************)
(* Bounds of the model.                                                    *)
(***************************************************************************)
\* width of TickType_t in the model (32 in the build); ticks wrap at 2^TickBits
TickBits == 4
\* ticks between two edges of the 1 Hz pulse, and between two seconds of now()
Period == 4
\* the run is observed for this many ticks
MaxTick == 22

(***************************************************************************)
(* Program constants.                                                      *)
(***************************************************************************)
\* char buf[14]
BufSize == 14
\* char out[17]
OutSize == 17
\* year(t) - 2000
YearBase == 2000

\* timeStatus_t of the Time library, as used by the switch in IF482_Out
timeNotSet == "timeNotSet"
timeNeedsSync == "timeNeedsSync"
timeSet == "timeSet"
TimeStatusValues == {timeNotSet, timeNeedsSync, timeSet}

\* '\r', the last character of the format string of the telegram
CR == "\r"

VARIABLES
  \* ---- encoder (IF482_Out) ----
  encPc,      \* position in IF482_Out: "idle","switch","if1","if2","fmt","done"
  tin,        \* the broken-down local time t the call formats
  timeStat,   \* the Time library's current status, what timeStatus() returns
  stSwitch,   \* status read by switch (timeStatus())
  stIf1,      \* status read by the first operand of the if
  stIf2,      \* status read by the second operand of the if ("none": not read)
  mon,        \* char mon
  confident,  \* outcome of the if condition
  out,        \* the returned String, a sequence of characters
  \* ---- time base and environment ----
  tick,       \* ticks since boot; xTaskGetTickCount() is tick mod 2^TickBits
  secPhase,   \* now() advances in the ticks with tick % Period = secPhase
  pulsePhase, \* the pulse falls in the ticks with tick % Period = pulsePhase
  nowSec,     \* now(), in seconds
  rolled,     \* now() has advanced in the current tick
  edged,      \* the pulse edge of the current tick has happened
  \* ---- if482_init ----
  initPc,     \* "begin","i2c","attach","ok","failed","aborted"
  IF482Task,  \* the task handle, "null" until the task is created
  attached,   \* attachInterrupt(RTC_INT, IF482IRQ, FALLING) has been called
  \* ---- if482_loop ----
  taskPc,     \* "none","start","poll","wait","delay","shot"
  timeOffset, \* pdMS_TO_TICKS(IF482_OFFSET)
  startTime,  \* tick count at task start
  t,          \* now() at task start
  shotTime,   \* the shot offset
  BitsPending,
  wakeTime,   \* receives the notification value, then the moment of the shot
  sleepUntil, \* tick at which vTaskDelayUntil returns
  \* ---- the task's notification (FreeRTOS) ----
  notifyValue,   \* ulNotifiedValue
  notifyPending, \* ucNotifyState = notification received
  \* ---- observation ----
  nIrq,       \* invocations of IF482IRQ
  nSent,      \* telegrams handed to IF482.print
  posted,     \* ticks since boot of the edges posted since the last wake
  woke,       \* the value of posted at the last wake
  takenAt,    \* tick since boot of the last wake
  nWake,      \* returns of xTaskNotifyWait
  tx          \* the last transmission

encVars == <<encPc, tin, timeStat, stSwitch, stIf1, stIf2, mon, confident, out>>

schVars == <<tick, secPhase, pulsePhase, nowSec, rolled, edged, initPc,
             IF482Task, attached, taskPc, timeOffset, startTime, t, shotTime,
             BitsPending, wakeTime, sleepUntil, notifyValue, notifyPending,
             nIrq, nSent, posted, woke, takenAt, nWake, tx>>

vars == <<encVars, schVars>>

(***************************************************************************)
(* printf conversions, computed digit by digit.                            *)
(***************************************************************************)
DigitChar(d) == <<"0", "1", "2", "3", "4", "5", "6", "7", "8", "9">>[d + 1]

RECURSIVE DecDigits(_)
\* the decimal digits of n >= 0, without padding
DecDigits(n) == IF n < 10 THEN <<DigitChar(n)>>
                ELSE Append(DecDigits(n \div 10), DigitChar(n % 10))

RECURSIVE ZeroPad(_, _)
\* left-pad with '0' up to the minimum field width w; never truncates
ZeroPad(s, w) == IF Len(s) >= w THEN s ELSE ZeroPad(<<"0">> \o s, w)

\* the digits printf("%u") prints for the int v: a negative int is read as
\* unsigned, v + 2^32 = 42949 * 10^5 + (67296 + v) for -67296 <= v < 0
UnsignedDigits(v) ==
  IF v >= 0 THEN DecDigits(v)
  ELSE DecDigits(42949) \o ZeroPad(DecDigits(67296 + v), 5)

\* "%02u" and "%1u"
Fmt02u(v) == ZeroPad(UnsignedDigits(v), 2)
Fmt1u(v) == ZeroPad(UnsignedDigits(v), 1)

\* snprintf(dst, size, ...): at most size - 1 characters are stored
Take(s, n) == IF Len(s) <= n THEN s ELSE SubSeq(s, 1, n)
Snprintf(size, full) == Take(full, size - 1)

(***************************************************************************)
(* IF482_Out                                                               *)
(***************************************************************************)
\* the switch with its case timeNeedsSync missing
MonitoringCharNoStale(s) ==
  CASE s = timeSet -> "A"
    [] OTHER -> "?"

\* the switch over timeStatus()
MonitoringChar(s) ==
  CASE s = timeSet -> "A"
    [] s = timeNeedsSync -> "M"
    [] OTHER -> "?"

\* snprintf(buf, sizeof(buf), "%02u%02u%02u%1u%02u%02u%02u", year(t) - 2000, ...)
DateTimeDigits(lt) ==
  Snprintf(BufSize,
           Fmt02u(lt.year - YearBase) \o Fmt02u(lt.month) \o Fmt02u(lt.day)
             \o Fmt1u(lt.wday) \o Fmt02u(lt.hour) \o Fmt02u(lt.minute)
             \o Fmt02u(lt.second))

\* snprintf(buf, sizeof(buf), "000000F000000")
Placeholder ==
  Snprintf(BufSize, <<"0", "0", "0", "0", "0", "0", "F",
                      "0", "0", "0", "0", "0", "0">>)

\* snprintf(out, sizeof(out), "O%cL%s\r", mon, buf)
Telegram(m, b) == Snprintf(OutSize, <<"O", m, "L">> \o b \o <<CR>>)

\* the whole function, for the status values its three reads return
IF482_Out(lt, s1, s2, s3) ==
  Telegram(MonitoringChar(s1),
           IF (s2 = timeSet) \/ (s3 = timeNeedsSync)
             THEN DateTimeDigits(lt) ELSE Placeholder)

(***************************************************************************)
(* Inputs of the encoder: calendar dates with their weekday (Sunday = 1)   *)
(* over the range of year(t), 1970..2106, and times of day.                *)
(***************************************************************************)
Dates ==
  { <<1970, 1, 1, 5>>, <<1999, 12, 31, 6>>, <<2000, 1, 1, 7>>,
    <<2016, 8, 6, 7>>, <<2038, 1, 19, 3>>, <<2099, 12, 31, 5>>,
    <<2100, 1, 1, 6>>, <<2106, 2, 7, 1>> }
Clocks == { <<0, 0, 0>>, <<17, 4, 0>>, <<9, 5, 7>>, <<23, 59, 59>> }

TimeSnapshot(d, c) ==
  [year |-> d[1], month |-> d[2], day |-> d[3], wday |-> d[4],
   hour |-> c[1], minute |-> c[2], second |-> c[3]]

\* myTZ.toLocal(tt), year(t) .. second(t) for tt seconds after boot, the
\* clock standing at 1999-12-31 23:59:57 local time at boot
BootClock == <<23, 59, 57>>
LocalTime(tt) ==
  LET s == BootClock[1] * 3600 + BootClock[2] * 60 + BootClock[3] + tt
      r == s % 86400
  IN TimeSnapshot(IF s >= 86400 THEN <<2000, 1, 1, 7>>
                                ELSE <<1999, 12, 31, 6>>,
                  <<r \div 3600, (r % 3600) \div 60, r % 60>>)

NoTime == TimeSnapshot(<<1970, 1, 1, 5>>, <<0, 0, 0>>)

EncIdle ==
  /\ encPc = "idle"
  /\ tin = NoTime
  /\ stSwitch = "none" /\ stIf1 = "none" /\ stIf2 = "none"
  /\ mon = "?"
  /\ confident = FALSE
  /\ out = <<>>

\* String IF482_Out(time_t tt): entry, t = myTZ.toLocal(tt)
EncCall ==
  /\ encPc \in {"idle", "done"}
  /\ \E d \in Dates, c \in Clocks : tin' = TimeSnapshot(d, c)
  /\ encPc' = "switch"
  /\ stSwitch' = "none" /\ stIf1' = "none" /\ stIf2' = "none"
  /\ UNCHANGED <<timeStat, mon, confident, out>>
  /\ UNCHANGED schVars

\* switch (timeStatus()) { ... }
EncSwitch ==
  /\ encPc = "switch"
  /\ stSwitch' = timeStat
  /\ mon' = MonitoringChar(timeStat)
  /\ encPc' = "if1"
  /\ UNCHANGED <<tin, timeStat, stIf1, stIf2, confident, out>>
  /\ UNCHANGED schVars

\* if ((timeStatus() == timeSet) || ...: the first operand
EncIfSet ==
  /\ encPc = "if1"
  /\ stIf1' = timeStat
  /\ IF timeStat = timeSet
       THEN confident' = TRUE /\ encPc' = "fmt"
       ELSE confident' = confident /\ encPc' = "if2"
  /\ UNCHANGED <<tin, timeStat, stSwitch, stIf2, mon, out>>
  /\ UNCHANGED schVars

\* ... || (timeStatus() == timeNeedsSync)): evaluated when the first is false
EncIfNeedsSync ==
  /\ encPc = "if2"
  /\ stIf2' = timeStat
  /\ confident' = (timeStat = timeNeedsSync)
  /\ encPc' = "fmt"
  /\ UNCHANGED <<tin, timeStat, stSwitch, stIf1, mon, out>>
  /\ UNCHANGED schVars

\* the two snprintf into buf, the snprintf into out, return out
EncFormat ==
  /\ encPc = "fmt"
  /\ out' = Telegram(mon, IF confident THEN DateTimeDigits(tin) ELSE Placeholder)
  /\ encPc' = "done"
  /\ UNCHANGED <<tin, timeStat, stSwitch, stIf1, stIf2, mon, confident>>
  /\ UNCHANGED schVars

\* the time status changes under the caller: the time is set, a sync attempt
\* fails, a later one succeeds
StatusChange ==
  /\ timeStat' \in
       CASE timeStat = timeNotSet -> {timeSet}
         [] timeStat = timeSet -> {timeNeedsSync}
         [] OTHER -> {timeSet}
  /\ UNCHANGED <<encPc, tin, stSwitch, stIf1, stIf2, mon, confident, out>>
  /\ UNCHANGED schVars


EncNext ==
  \/ EncCall
  \/ EncSwitch
  \/ EncIfSet
  \/ EncIfNeedsSync
  \/ EncFormat
  \/ StatusChange

(***************************************************************************)
(* Tick arithmetic: TickType_t is unsigned and wraps.                      *)
(***************************************************************************)
TickMod == 2 ^ TickBits

\* a value of TickType_t
Wrap(x) == (x + 2 * TickMod) % TickMod

\* xTaskGetTickCount(), xTaskGetTickCountFromISR()
TickCount == tick % TickMod

RECURSIVE BitOr(_, _)
\* a | b
BitOr(a, b) ==
  IF a = 0 THEN b
  ELSE IF b = 0 THEN a
  ELSE (IF a % 2 = 1 \/ b % 2 = 1 THEN 1 ELSE 0)
         + 2 * BitOr(a \div 2, b \div 2)

\* const TickType_t shotTime = xTaskGetTickCount() - startTime - timeOffset
ShotTime(lockTick, start, lead) == Wrap(lockTick - start - lead)

\* vTaskDelayUntil(&wakeTime, shotTime): the moment to wake, as a tick count
TimeToWake(prev, incr) == Wrap(prev + incr)

\* vTaskDelayUntil: whether the task blocks at all, given the tick count now
ShouldDelay(prev, incr, cnt) ==
  LET wake == TimeToWake(prev, incr) IN
  IF cnt < prev
    THEN (wake < prev) /\ (wake > cnt)
    ELSE (wake < prev) \/ (wake > cnt)

\* xTaskNotifyFromISR(IF482Task, value, eSetBits, NULL) on the stored value
NotifySetBits(old, value) == BitOr(old, value)

(***************************************************************************)
(* Initial state: nothing has been called yet.                             *)
(***************************************************************************)
NoTx == [at |-> 0, edge |-> 0, taken |-> 0, due |-> 0, wake |-> 0, sec |-> 0,
         status |-> "none", out |-> <<>>]

SchIdle ==
  /\ tick = 0
  /\ nowSec = 0
  /\ rolled = FALSE /\ edged = FALSE
  /\ initPc = "begin"
  /\ IF482Task = "null"
  /\ attached = FALSE
  /\ taskPc = "none"
  /\ startTime = 0 /\ t = 0 /\ shotTime = 0
  /\ BitsPending = FALSE
  /\ wakeTime = 0 /\ sleepUntil = 0
  /\ notifyValue = 0 /\ notifyPending = FALSE
  /\ nIrq = 0 /\ nSent = 0
  /\ posted = <<>> /\ woke = <<>>
  /\ takenAt = 0 /\ nWake = 0
  /\ tx = NoTx

Init ==
  /\ EncIdle
  /\ timeStat \in TimeStatusValues
  /\ SchIdle
  /\ secPhase \in 0 .. Period - 1
  /\ pulsePhase \in 0 .. Period - 1
  /\ timeOffset \in 0 .. Period - 1

EncInit ==
  /\ EncIdle
  /\ timeStat \in TimeStatusValues
  /\ SchIdle
  /\ secPhase = 0 /\ pulsePhase = 0 /\ timeOffset = 0

SpecEnc == EncInit /\ [][EncNext]_vars

(***************************************************************************)
(* The time base.  The task if482_loop has the highest priority of its     *)
(* core: a step it can take is taken within the current tick.  if482_init  *)
(* runs in its caller's context and may be held up between its calls.      *)
(***************************************************************************)
SecondDue == (tick % Period = secPhase) /\ ~rolled
EdgeDue == (tick % Period = pulsePhase) /\ ~edged

TaskReady ==
  \/ taskPc \in {"start", "delay"}
  \/ taskPc = "poll" /\ nowSec # t
  \/ taskPc = "wait" /\ notifyPending
  \/ taskPc = "shot" /\ tick >= sleepUntil

\* the tick interrupt of the kernel
Tick ==
  /\ tick < MaxTick
  /\ ~SecondDue /\ ~EdgeDue /\ ~TaskReady
  /\ tick' = tick + 1
  /\ rolled' = FALSE /\ edged' = FALSE
  /\ UNCHANGED <<secPhase, pulsePhase, nowSec, initPc, IF482Task, attached,
                 taskPc, timeOffset, startTime, t, shotTime, BitsPending,
                 wakeTime, sleepUntil, notifyValue, notifyPending, nIrq,
                 nSent, posted, woke, takenAt, nWake, tx>>
  /\ UNCHANGED encVars

\* now() reaches the next second
SecondRoll ==
  /\ SecondDue
  /\ nowSec' = nowSec + 1
  /\ rolled' = TRUE
  /\ UNCHANGED <<tick, secPhase, pulsePhase, edged, initPc, IF482Task,
                 attached, taskPc, timeOffset, startTime, t, shotTime,
                 BitsPending, wakeTime, sleepUntil, notifyValue,
                 notifyPending, nIrq, nSent, posted, woke, takenAt, nWake, tx>>
  /\ UNCHANGED encVars

\* a falling edge on RTC_INT while no interrupt is attached to the pin
EdgeUnattached ==
  /\ EdgeDue
  /\ ~attached
  /\ edged' = TRUE
  /\ UNCHANGED <<tick, secPhase, pulsePhase, nowSec, rolled, initPc,
                 IF482Task, attached, taskPc, timeOffset, startTime, t,
                 shotTime, BitsPending, wakeTime, sleepUntil, notifyValue,
                 notifyPending, nIrq, nSent, posted, woke, takenAt, nWake, tx>>
  /\ UNCHANGED encVars

\* void IRAM_ATTR IF482IRQ(): a falling edge on RTC_INT, interrupt attached
IF482IRQ ==
  /\ EdgeDue
  /\ attached
  /\ edged' = TRUE
  /\ notifyValue' = NotifySetBits(notifyValue, TickCount)
  /\ notifyPending' = TRUE
  /\ nIrq' = nIrq + 1
  /\ posted' = Append(posted, tick)
  /\ UNCHANGED <<tick, secPhase, pulsePhase, nowSec, rolled, initPc,
                 IF482Task, attached, taskPc, timeOffset, startTime, t,
                 shotTime, BitsPending, wakeTime, sleepUntil, nSent, woke, takenAt, nWake, tx>>
  /\ UNCHANGED encVars

(***************************************************************************)
(* if482_init                                                              *)
(***************************************************************************)
\* pinMode, xTaskCreatePinnedToCore(if482_loop, ..., &IF482Task, 0), assert,
\* IF482.begin
InitCreateTask ==
  /\ initPc = "begin"
  /\ taskPc' = "start"
  /\ IF482Task' = "if482loop"
  /\ initPc' = "i2c"
  /\ UNCHANGED <<tick, secPhase, pulsePhase, nowSec, rolled, edged, attached,
                 timeOffset, startTime, t, shotTime, BitsPending, wakeTime,
                 sleepUntil, notifyValue, notifyPending, nIrq, nSent, posted,
                 woke, takenAt, nWake, tx>>
  /\ UNCHANGED encVars

\* xTaskCreatePinnedToCore creates no task and if482_init goes on without
\* the assert
InitCreateFailsNoAssert ==
  /\ initPc = "begin"
  /\ initPc' = "i2c"
  /\ UNCHANGED <<tick, secPhase, pulsePhase, nowSec, rolled, edged, IF482Task,
                 attached, taskPc, timeOffset, startTime, t, shotTime,
                 BitsPending, wakeTime, sleepUntil, notifyValue,
                 notifyPending, nIrq, nSent, posted, woke, takenAt, nWake, tx>>
  /\ UNCHANGED encVars

\* xTaskCreatePinnedToCore creates no task: assert(IF482Task) stops the program
InitCreateFails ==
  /\ initPc = "begin"
  /\ initPc' = "aborted"
  /\ UNCHANGED <<tick, secPhase, pulsePhase, nowSec, rolled, edged, IF482Task,
                 attached, taskPc, timeOffset, startTime, t, shotTime,
                 BitsPending, wakeTime, sleepUntil, notifyValue,
                 notifyPending, nIrq, nSent, posted, woke, takenAt, nWake, tx>>
  /\ UNCHANGED encVars

\* I2C_MUTEX_LOCK() succeeds: the RTC is set to a 1 Hz square wave
InitSquareWave ==
  /\ initPc = "i2c"
  /\ initPc' = "attach"
  /\ UNCHANGED <<tick, secPhase, pulsePhase, nowSec, rolled, edged, IF482Task,
                 attached, taskPc, timeOffset, startTime, t, shotTime,
                 BitsPending, wakeTime, sleepUntil, notifyValue,
                 notifyPending, nIrq, nSent, posted, woke, takenAt, nWake, tx>>
  /\ UNCHANGED encVars

\* I2C_MUTEX_LOCK() fails: return 0
InitI2cBusy ==
  /\ initPc = "i2c"
  /\ initPc' = "failed"
  /\ UNCHANGED <<tick, secPhase, pulsePhase, nowSec, rolled, edged, IF482Task,
                 attached, taskPc, timeOffset, startTime, t, shotTime,
                 BitsPending, wakeTime, sleepUntil, notifyValue,
                 notifyPending, nIrq, nSent, posted, woke, takenAt, nWake, tx>>
  /\ UNCHANGED encVars

\* attachInterrupt(digitalPinToInterrupt(RTC_INT), IF482IRQ, FALLING); return 1
InitAttach ==
  /\ initPc = "attach"
  /\ attached' = TRUE
  /\ initPc' = "ok"
  /\ UNCHANGED <<tick, secPhase, pulsePhase, nowSec, rolled, edged, IF482Task,
                 taskPc, timeOffset, startTime, t, shotTime, BitsPending,
                 wakeTime, sleepUntil, notifyValue, notifyPending, nIrq,
                 nSent, posted, woke, takenAt, nWake, tx>>
  /\ UNCHANGED encVars

(***************************************************************************)
(* if482_loop                                                              *)
(***************************************************************************)
\* startTime = xTaskGetTickCount(); t = tt = now()
TaskStart ==
  /\ taskPc = "start"
  /\ startTime' = TickCount
  /\ t' = nowSec
  /\ taskPc' = "poll"
  /\ UNCHANGED <<tick, secPhase, pulsePhase, nowSec, rolled, edged, initPc,
                 IF482Task, attached, timeOffset, shotTime, BitsPending,
                 wakeTime, sleepUntil, notifyValue, notifyPending, nIrq,
                 nSent, posted, woke, takenAt, nWake, tx>>
  /\ UNCHANGED encVars

\* the poll loop left without waiting for now() to change
PhaseLockNoPoll ==
  /\ taskPc = "poll"
  /\ BitsPending' = TRUE
  /\ shotTime' = ShotTime(TickCount, startTime, timeOffset)
  /\ taskPc' = "wait"
  /\ UNCHANGED <<tick, secPhase, pulsePhase, nowSec, rolled, edged, initPc,
                 IF482Task, attached, timeOffset, startTime, t, wakeTime,
                 sleepUntil, notifyValue, notifyPending, nIrq, nSent, posted,
                 woke, takenAt, nWake, tx>>
  /\ UNCHANGED encVars

\* do { tt = now(); } while (t == tt) ends; BitsPending = true; shotTime = ...
PhaseLock ==
  /\ taskPc = "poll"
  /\ nowSec # t
  /\ BitsPending' = TRUE
  /\ shotTime' = ShotTime(TickCount, startTime, timeOffset)
  /\ taskPc' = "wait"
  /\ UNCHANGED <<tick, secPhase, pulsePhase, nowSec, rolled, edged, initPc,
                 IF482Task, attached, timeOffset, startTime, t, wakeTime,
                 sleepUntil, notifyValue, notifyPending, nIrq, nSent, posted,
                 woke, takenAt, nWake, tx>>
  /\ UNCHANGED encVars

\* xTaskNotifyWait(0x00, 0x00, ...): no bits cleared on exit
NotifyWaitNoClear ==
  /\ taskPc = "wait"
  /\ notifyPending
  /\ wakeTime' = notifyValue
  /\ notifyPending' = FALSE
  /\ woke' = posted
  /\ posted' = <<>>
  /\ takenAt' = tick
  /\ nWake' = nWake + 1
  /\ taskPc' = "delay"
  /\ UNCHANGED <<tick, secPhase, pulsePhase, nowSec, rolled, edged, initPc,
                 IF482Task, attached, timeOffset, startTime, t, shotTime,
                 BitsPending, sleepUntil, notifyValue, nIrq, nSent, tx>>
  /\ UNCHANGED encVars

\* xTaskNotifyWait that leaves the notification pending when it returns
NotifyWaitKeepsPending ==
  /\ taskPc = "wait"
  /\ notifyPending
  /\ wakeTime' = notifyValue
  /\ notifyValue' = 0
  /\ woke' = posted
  /\ takenAt' = tick
  /\ nWake' = nWake + 1
  /\ taskPc' = "delay"
  /\ UNCHANGED <<tick, secPhase, pulsePhase, nowSec, rolled, edged, initPc,
                 IF482Task, attached, timeOffset, startTime, t, shotTime,
                 BitsPending, sleepUntil, notifyPending, posted, nIrq, nSent,
                 tx>>
  /\ UNCHANGED encVars

\* xTaskNotifyWait(0x00, ULONG_MAX, &wakeTime, portMAX_DELAY) returns
NotifyWait ==
  /\ taskPc = "wait"
  /\ notifyPending
  /\ wakeTime' = notifyValue
  /\ notifyValue' = 0
  /\ notifyPending' = FALSE
  /\ woke' = posted
  /\ takenAt' = tick
  /\ nWake' = nWake + 1
  /\ posted' = <<>>
  /\ taskPc' = "delay"
  /\ UNCHANGED <<tick, secPhase, pulsePhase, nowSec, rolled, edged, initPc,
                 IF482Task, attached, timeOffset, startTime, t, shotTime,
                 BitsPending, sleepUntil, nIrq, nSent, tx>>
  /\ UNCHANGED encVars

\* vTaskDelayUntil(&wakeTime, shotTime) is called
DelayUntil ==
  /\ taskPc = "delay"
  /\ wakeTime' = TimeToWake(wakeTime, shotTime)
  /\ sleepUntil' =
       IF ShouldDelay(wakeTime, shotTime, TickCount)
         THEN tick + Wrap(TimeToWake(wakeTime, shotTime) - TickCount)
         ELSE tick
  /\ taskPc' = "shot"
  /\ UNCHANGED <<tick, secPhase, pulsePhase, nowSec, rolled, edged, initPc,
                 IF482Task, attached, timeOffset, startTime, t, shotTime,
                 BitsPending, notifyValue, notifyPending, nIrq, nSent, posted,
                 woke, takenAt, nWake, tx>>
  /\ UNCHANGED encVars

\* the loop skipping the print while the time is not set
TransmitSkipsUnsynced ==
  /\ taskPc = "shot"
  /\ tick >= sleepUntil
  /\ IF timeStat = timeNotSet
       THEN nSent' = nSent /\ tx' = tx
       ELSE /\ nSent' = nSent + 1
            /\ tx' = [at |-> tick, edge |-> woke[Len(woke)],
                      taken |-> takenAt, due |-> sleepUntil,
                      wake |-> wakeTime, sec |-> nowSec + 1,
                      status |-> timeStat,
                      out |-> IF482_Out(LocalTime(nowSec + 1),
                                        timeStat, timeStat, timeStat)]
  /\ taskPc' = "wait"
  /\ UNCHANGED <<tick, secPhase, pulsePhase, nowSec, rolled, edged, initPc,
                 IF482Task, attached, timeOffset, startTime, t, shotTime,
                 BitsPending, wakeTime, sleepUntil, notifyValue,
                 notifyPending, nIrq, posted, woke, takenAt, nWake>>
  /\ UNCHANGED encVars

\* vTaskDelayUntil returns; IF482.print(IF482_Out(now() + 1)).  The call is
\* taken as one step here; SpecEnc interleaves its status reads.
Transmit ==
  /\ taskPc = "shot"
  /\ tick >= sleepUntil
  /\ nSent' = nSent + 1
  /\ tx' = [at |-> tick, edge |-> woke[Len(woke)], taken |-> takenAt,
            due |-> sleepUntil, wake |-> wakeTime, sec |-> nowSec + 1,
            status |-> timeStat,
            out |-> IF482_Out(LocalTime(nowSec + 1),
                              timeStat, timeStat, timeStat)]
  /\ taskPc' = "wait"
  /\ UNCHANGED <<tick, secPhase, pulsePhase, nowSec, rolled, edged, initPc,
                 IF482Task, attached, timeOffset, startTime, t, shotTime,
                 BitsPending, wakeTime, sleepUntil, notifyValue,
                 notifyPending, nIrq, posted, woke, takenAt, nWake>>
  /\ UNCHANGED encVars

Next ==
  \/ Tick
  \/ SecondRoll
  \/ EdgeUnattached
  \/ IF482IRQ
  \/ InitCreateTask
  \/ InitCreateFails
  \/ InitSquareWave
  \/ InitI2cBusy
  \/ InitAttach
  \/ TaskStart
  \/ PhaseLock
  \/ NotifyWait
  \/ DelayUntil
  \/ Transmit
  \/ StatusChange

Spec == Init /\ [][Next]_vars

(***************************************************************************)
(* Properties of the encoder, checked under SpecEnc.                       *)
(***************************************************************************)
\* every timeStatus() read of the finished call returned the status s
StableStatus(s) ==
  /\ encPc = "done"
  /\ stSwitch = s /\ stIf1 = s /\ stIf2 \in {"none", s}

\* n < 100 as exactly two decimal digits
TwoDigits(n) == <<DigitChar(n \div 10), DigitChar(n % 10)>>

\* the 13 digit-field bytes the wire format asks for
ExpectedDigits(lt) ==
  TwoDigits(lt.year % 100) \o TwoDigits(lt.month) \o TwoDigits(lt.day)
    \o <<DigitChar(lt.wday)>> \o TwoDigits(lt.hour) \o TwoDigits(lt.minute)
    \o TwoDigits(lt.second)

DegradedTelegram ==
  <<"O", "?", "L", "0", "0", "0", "0", "0", "0", "F",
    "0", "0", "0", "0", "0", "0", CR>>

\* C1: every telegram IF482_Out returns is exactly 17 bytes long: 'O', the
\* monitoring character, 'L', 13 digit-field bytes, and CR as byte 17.
C1_TelegramIs17Bytes ==
  encPc = "done" =>
    /\ Len(out) = 17
    /\ out[1] = "O"
    /\ out[2] \in {"A", "M", "?"}
    /\ out[3] = "L"
    /\ out[17] = CR

\* C2: with a confident status (timeSet or timeNeedsSync), bytes 4-16 are the
\* zero-padded fields (year mod 100), month, day, weekday, hour, minute,
\* second, for every year that year(t) can return.
C2_DigitFieldsArePaddedComponents ==
  (StableStatus(timeSet) \/ StableStatus(timeNeedsSync)) =>
    /\ Len(out) >= 16
    /\ SubSeq(out, 4, 16) = ExpectedDigits(tin)

\* C3: byte 2 of every telegram depends on the time status alone, as read by
\* the switch: timeSet gives 'A', timeNeedsSync gives 'M', any other '?'.
C3_MonitoringFollowsStatus ==
  encPc = "done" =>
    /\ Len(out) >= 2
    /\ (stSwitch = timeSet => out[2] = "A")
    /\ (stSwitch = timeNeedsSync => out[2] = "M")
    /\ (stSwitch \notin {timeSet, timeNeedsSync} => out[2] = "?")

\* a stale-sync call for a date outside 2000..2099 has returned 'M'
C3_Witness ==
  /\ encPc = "done"
  /\ stSwitch = timeNeedsSync
  /\ tin.year = 2100
  /\ out[2] = "M"

\* C4: with the status timeNotSet, IF482_Out returns the fixed telegram
\* "O?L000000F000000" followed by CR, whatever the time value.
C4_UnsyncedTelegramIsFixed ==
  StableStatus(timeNotSet) => out = DegradedTelegram

(***************************************************************************)
(* Properties of if482_init, if482_loop and IF482IRQ, checked under Spec.  *)
(***************************************************************************)
\* the task has left its phase-lock poll and computed shotTime
Locked == taskPc \in {"wait", "delay", "shot"}

\* C5: the task transmits exactly one telegram per pulse edge delivered by
\* IF482IRQ: whenever it is blocked with nothing pending, as many telegrams
\* have been sent as edges were posted.
C5_OneTelegramPerPulse ==
  (taskPc = "wait" /\ ~notifyPending) => nSent = nIrq

\* C6: after a failed if482_init no task if482_loop exists.
C6_FailedInitStartsNoTask ==
  initPc = "failed" => (taskPc = "none" /\ IF482Task = "null")

\* C7: the shot offset, computed at phase-lock within one period of task
\* start with a lead time below one period, is in 0 .. onePeriod - 1.
C7_ShotOffsetWithinPeriod ==
  Locked => (0 <= shotTime /\ shotTime < Period)

\* C8: the transmission for a pulse notified at tick T starts at tick
\* T + shotOffset, not earlier and not later.
C8_ShotAtPulsePlusOffset ==
  nSent > 0 => tx.at = tx.edge + shotTime

\* C9: when two edges were posted before the task woke, the tick value it
\* receives is the tick of the latest edge.
C9_LatestTickWins ==
  (taskPc = "delay" /\ Len(woke) >= 2) =>
    wakeTime = woke[Len(woke)] % TickMod

\* C10: IF482IRQ is first invoked only after if482_loop has finished its
\* phase-lock and written shotTime (the task never returns to the poll).
C10_FirstEdgeAfterPhaseLock ==
  nIrq > 0 => Locked

\* the task is blocked in xTaskNotifyWait with nothing to take
Blocked == taskPc = "wait" /\ ~notifyPending

\* C11: telegrams are sent only in consequence of pulse notifications: never
\* more telegrams than edges posted by IF482IRQ, none after a failed
\* if482_init, and a blocked task stays blocked and sends nothing until an
\* edge is posted.
C11_NoTelegramWithoutPulse ==
  /\ [](nSent <= nIrq)
  /\ [](initPc = "failed" => nSent = 0)
  /\ [][Blocked => (taskPc' = "wait" /\ nSent' = nSent
                      /\ (Blocked' \/ nIrq' = nIrq + 1))]_vars

\* two telegrams have been sent for two edges, the task is blocked again
C11_Witness ==
  /\ nSent = 2 /\ nIrq = 2
  /\ Blocked

\* C12: a stale cycle is skipped: no telegram is sent for a notification that
\* the task took after the shot instant T + shotOffset of its pulse had
\* passed; every telegram follows the edge it is sent for.
C12_StaleCycleSkipped ==
  nSent > 0 =>
    /\ tx.edge <= tx.at
    /\ ~(tx.edge + shotTime < tx.taken)

\* now() at the end of the tick x, and the values it has during that tick
NowAfter(x) == IF x < secPhase THEN 0 ELSE (x - secPhase) \div Period + 1
NowDuring(x) ==
  {NowAfter(x)} \cup (IF x % Period = secPhase THEN {NowAfter(x) - 1} ELSE {})

\* C13: each telegram is encoded from now() + 1 read at the shot, and that
\* value is the second following the second in which its pulse fell.
C13_TelegramIsSecondAfterPulse ==
  nSent > 0 =>
    /\ tx.sec \in {n + 1 : n \in NowDuring(tx.at)}
    /\ tx.out = IF482_Out(LocalTime(tx.sec), tx.status, tx.status, tx.status)
    /\ tx.sec \in {n + 1 : n \in NowDuring(tx.edge)}

Stage(pc) ==
  CASE pc = "none" -> 0
    [] pc = "start" -> 1
    [] pc = "poll" -> 2
    [] OTHER -> 3

\* C15: the task goes Unlocked -> Locked -> Running and never back: shotTime
\* is written once, when the poll has seen now() change, and never again; no
\* notification is taken and no telegram sent before that.
C15_LockedOnceForGood ==
  /\ [][Stage(taskPc') >= Stage(taskPc)]_vars
  /\ [][(taskPc = "poll" /\ taskPc' # "poll") =>
          /\ nowSec # t
          /\ taskPc' = "wait"
          /\ shotTime' = Wrap(TickCount - startTime - timeOffset)]_vars
  /\ [][taskPc # "poll" => shotTime' = shotTime]_vars
  /\ [](~Locked => (nWake = 0 /\ nSent = 0 /\ shotTime = 0))

\* the task runs with the offset it computed and has sent telegrams
C15_Witness ==
  /\ taskPc = "wait"
  /\ nSent = 2
  /\ shotTime = 2

RECURSIVE OrOfTicks(_)
\* the bits of the tick counts of the edges posted at the ticks in seq
OrOfTicks(seq) ==
  IF seq = <<>> THEN 0
  ELSE BitOr(OrOfTicks(SubSeq(seq, 1, Len(seq) - 1)), seq[Len(seq)] % TickMod)

\* C16: every return of xTaskNotifyWait leaves the notification cleared (value
\* zero, nothing pending), hands over only bits of edges posted since the
\* previous return, and is followed by at most one transmission.
C16_WakeClearsNotification ==
  /\ [][(taskPc = "wait" /\ taskPc' = "delay") =>
          /\ notifyValue' = 0
          /\ ~notifyPending'
          /\ posted # <<>>
          /\ wakeTime' = OrOfTicks(posted)]_vars
  /\ [](nSent <= nWake /\ nWake <= nSent + 1)
  /\ [](notifyValue = OrOfTicks(posted))

\* the second wake has handed over the tick of its own edge alone
C16_Witness ==
  /\ taskPc = "delay"
  /\ nWake = 2
  /\ Len(woke) = 1
  /\ wakeTime = woke[1] % TickMod
  /\ wakeTime # 0
  /\ notifyValue = 0

\* C17: the delay entered for a pulse taken at its tick T ends, and the
\* telegram is sent, before the next edge at T + onePeriod: the task is never
\* still delaying or printing when that tick comes.
C17_ShotBeforeNextEdge ==
  (taskPc \in {"delay", "shot"} /\ takenAt = woke[Len(woke)]) =>
    tick < takenAt + Period

\* C18: the monitoring character and the digit fields of one telegram agree,
\* also when the time status changes between the reads of IF482_Out: byte 2
\* is '?' exactly when bytes 4-16 are the placeholder "000000F000000".
C18_MonitoringMatchesDigits ==
  encPc = "done" =>
    /\ Len(out) >= 16
    /\ (out[2] = "?") <=> (SubSeq(out, 4, 16) = Placeholder)
    /\ (out[2] \in {"A", "M"}) <=> (SubSeq(out, 4, 16) = DateTimeDigits(tin))

\* C19: IF482IRQ never notifies an unset task handle: the interrupt is
\* attached only once IF482Task holds the created task, and the handle never
\* changes after it is set.
C19_IrqTargetsCreatedTask ==
  /\ [](attached => (IF482Task = "if482loop" /\ taskPc # "none"))
  /\ [](nIrq > 0 => (IF482Task = "if482loop" /\ taskPc # "none"))
  /\ [][IF482Task # "null" => IF482Task' = IF482Task]_vars

\* an edge has been posted to the created task
C19_Witness ==
  /\ nIrq > 0
  /\ attached
  /\ IF482Task = "if482loop"
  /\ notifyPending

=============================================================================
